---- MODULE Spec2Model ----
(***************************************************************************)
(* Enrollment allocation, drop, grade posting, registration and login of    *)
(* the course registration system (services.py, dao.py, database.py,       *)
(* config.py, ui.py), run by several interactive sessions against one      *)
(* relational store.  Each session is one CLI process with its own         *)
(* connection pool and its own AuthenticationService.                      *)
(* Grades and grade points are kept in tenths (75.0 is 750, 1.7 is 17).    *)
(***************************************************************************)
EXTENDS Integers, Sequences, FiniteSets, TLC

VARIABLES section, rows, who, pc, arg, pool, proc, ret, users, profiles, auth

vars == <<section, rows, who, pc, arg, pool, proc, ret, users, profiles, auth>>

(* ---------------------------- bounds ----------------------------------- *)

\* Largest number of Enrollment rows the store may hold.
MaxRows == 2

\* Largest number of Account rows the store may hold.
MaxUsers == 6
MaxLost == 2

\* The concurrent interactive sessions (CLI processes).
Sessions == {"p1", "p2"}

\* The registered students.
Students == {"s1", "s2"}

\* Grades an instructor types while the sessions run side by side, in
\* tenths: -0.1, 55, 60, 100.1.
GradeInputs == {-1, 550, 600, 1001}

\* Grades an instructor types in the single-session runs: -0.1, 0, 55, 60,
\* 75, 96, 96.5, 100, 100.1.
SoloGradeInputs == {-1, 0, 550, 600, 750, 960, 965, 1000, 1001}

(* --------------------------- config.py --------------------------------- *)

POOL_SIZE == 10

POOL_RESET_SESSION == TRUE

MIN_CREDITS_PER_SEMESTER == 10

MAX_CREDITS_PER_SEMESTER == 40

\* PASSING_GRADE as written in the UPDATE statement of update_grade: 60,
\* in tenths.
PASSING_GRADE == 600

\* A scale whose 73..76 row carries the points of 87..89.
GRADE_SCALE_RowSwapped ==
  << <<970, 1000, 40>>, <<930, 960, 37>>, <<900, 920, 33>>,
     <<870, 890, 17>>,  <<830, 860, 27>>, <<800, 820, 23>>,
     <<770, 790, 20>>,  <<730, 760, 30>>, <<700, 720, 13>>,
     <<670, 690, 10>>,  <<650, 660, 7>>,  <<0, 640, 0>> >>

\* GRADE_SCALE in dictionary order: <<min, max, points>>, in tenths.
GRADE_SCALE ==
  << <<970, 1000, 40>>, <<930, 960, 37>>, <<900, 920, 33>>,
     <<870, 890, 30>>,  <<830, 860, 27>>, <<800, 820, 23>>,
     <<770, 790, 20>>,  <<730, 760, 17>>, <<700, 720, 13>>,
     <<670, 690, 10>>,  <<650, 660, 7>>,  <<0, 640, 0>> >>

RECURSIVE ScanGradeScale(_, _)
ScanGradeScale(grade, i) ==
  IF i > Len(GRADE_SCALE) THEN 0
  ELSE IF GRADE_SCALE[i][1] <= grade /\ grade <= GRADE_SCALE[i][2]
       THEN GRADE_SCALE[i][3]
       ELSE ScanGradeScale(grade, i + 1)

\* AppConfig.calculate_grade_points for a grade that is not None.
calculate_grade_points(grade) == ScanGradeScale(grade, 1)

(* ------------------------- the section catalog ------------------------- *)

\* The Section table joined with Course, as administration created it before
\* the term opened.  Section 1 is a one-seat section in both catalogs.  In
\* the first, sections 1 and 2 together pass the credit limit (4 + 38); in
\* the second they share a time slot.
Catalogs ==
  { << [MaxCapacity |-> 1, Credits |-> 4,  TimeSlot |-> "MWF 09:00-09:50",
        Semester |-> "Fall", Year |-> 2025],
       [MaxCapacity |-> 2, Credits |-> 38, TimeSlot |-> "TTh 10:00-11:15",
        Semester |-> "Fall", Year |-> 2025] >>,
    << [MaxCapacity |-> 1, Credits |-> 4,  TimeSlot |-> "MWF 09:00-09:50",
        Semester |-> "Fall", Year |-> 2025],
       [MaxCapacity |-> 2, Credits |-> 3,  TimeSlot |-> "MWF 09:00-09:50",
        Semester |-> "Fall", Year |-> 2025] >> }

\* The catalogs of the single-session runs: the two above; one in which
\* sections 1 and 2 together reach the credit limit exactly (4 + 36); one
\* whose sections have no time slot; and one whose sections share a time
\* slot and together pass the credit limit.
SoloCatalogs ==
  Catalogs \cup
  { << [MaxCapacity |-> 1, Credits |-> 4,  TimeSlot |-> "MWF 09:00-09:50",
        Semester |-> "Fall", Year |-> 2025],
       [MaxCapacity |-> 2, Credits |-> 36, TimeSlot |-> "TTh 10:00-11:15",
        Semester |-> "Fall", Year |-> 2025] >>,
    << [MaxCapacity |-> 1, Credits |-> 4,  TimeSlot |-> "",
        Semester |-> "Fall", Year |-> 2025],
       [MaxCapacity |-> 2, Credits |-> 3,  TimeSlot |-> "",
        Semester |-> "Fall", Year |-> 2025] >>,
    << [MaxCapacity |-> 1, Credits |-> 4,  TimeSlot |-> "MWF 09:00-09:50",
        Semester |-> "Fall", Year |-> 2025],
       [MaxCapacity |-> 2, Credits |-> 38, TimeSlot |-> "MWF 09:00-09:50",
        Semester |-> "Fall", Year |-> 2025] >> }

Sections == {1, 2}

\* The section ids a user may type: the existing ones and one that does
\* not exist.
SectionIds == {1, 2, 3}

(* --------------------------- store queries ----------------------------- *)

RowIds(rs) == 1..Len(rs)

\* COUNT(*) FROM Enrollment WHERE Status = 'Enrolled' GROUP BY SectionID
CurrentEnrollment(rs, x) ==
  Cardinality({i \in RowIds(rs) : rs[i].section = x /\ rs[i].status = "Enrolled"})

\* SectionDAO.get_section_by_id: AvailableSpots of an existing section.
AvailableSpots(rs, x) == section[x].MaxCapacity - CurrentEnrollment(rs, x)

SameTerm(x, y) ==
  /\ section[x].Semester = section[y].Semester
  /\ section[x].Year = section[y].Year

\* EnrollmentDAO.get_student_enrollments(student, semester, year): the ids
\* of the student's rows of the term of section x, whatever their status.
StudentEnrollments(rs, s, x) ==
  {i \in RowIds(rs) : rs[i].student = s /\ SameTerm(rs[i].section, x)}

RECURSIVE SumCredits(_, _)
SumCredits(rs, ids) ==
  IF ids = {} THEN 0
  ELSE LET i == CHOOSE j \in ids : TRUE
       IN section[rs[i].section].Credits + SumCredits(rs, ids \ {i})

\* A credit sum that forgets the status filter.
CurrentCreditsAnyStatus(rs, s, x) ==
  SumCredits(rs, StudentEnrollments(rs, s, x))

\* sum(e.credits for e in current_enrollments if e.status == 'Enrolled')
CurrentCredits(rs, s, x) ==
  SumCredits(rs, {i \in StudentEnrollments(rs, s, x) : rs[i].status = "Enrolled"})

(* ---------------- StudentService.validate_enrollment_eligibility ------- *)

\* A check of the enrollments whose time-conflict test forgets the status.
CheckEnrollmentsSlotAnyStatus(rs, s, x) ==
  LET cur   == StudentEnrollments(rs, s, x)
      total == CurrentCredits(rs, s, x) + section[x].Credits
      w     == total < MIN_CREDITS_PER_SEMESTER /\ cur = {}
  IN IF total > MAX_CREDITS_PER_SEMESTER
       THEN <<FALSE, "Exceeds maximum credit limit (40)", FALSE>>
     ELSE IF \E i \in cur : /\ section[rs[i].section].TimeSlot # ""
                            /\ section[x].TimeSlot # ""
                            /\ section[rs[i].section].TimeSlot = section[x].TimeSlot
       THEN <<FALSE, "Time conflict with existing enrollment", FALSE>>
     ELSE IF \E i \in cur : rs[i].section = x
       THEN <<FALSE, "Already enrolled in this section", FALSE>>
     ELSE <<TRUE, "", w>>

\* The checks made on current_enrollments, in the order of the code; the
\* result is <<eligible, message, warning>>.
CheckEnrollments(rs, s, x) ==
  LET cur   == StudentEnrollments(rs, s, x)
      total == CurrentCredits(rs, s, x) + section[x].Credits
      w     == total < MIN_CREDITS_PER_SEMESTER /\ cur = {}
  IN IF total > MAX_CREDITS_PER_SEMESTER
       THEN <<FALSE, "Exceeds maximum credit limit (40)", FALSE>>
     ELSE IF \E i \in cur : /\ rs[i].status = "Enrolled"
                            /\ section[rs[i].section].TimeSlot # ""
                            /\ section[x].TimeSlot # ""
                            /\ section[rs[i].section].TimeSlot = section[x].TimeSlot
       THEN <<FALSE, "Time conflict with existing enrollment", FALSE>>
     ELSE IF \E i \in cur : rs[i].section = x
       THEN <<FALSE, "Already enrolled in this section", FALSE>>
     ELSE <<TRUE, "", w>>

(* --------------------- the stored procedure ---------------------------- *)

NewRow(s, x) ==
  [student |-> s, section |-> x, status |-> "Enrolled",
   final_grade |-> <<>>, grade_points |-> <<>>]

\* An enroll procedure that inserts without looking at the capacity.
EnrollRefusalNoCapacity(rs, s, x) ==
  IF x \notin Sections THEN "SectionFull"
  ELSE IF CurrentCredits(rs, s, x) + section[x].Credits > MAX_CREDITS_PER_SEMESTER
    THEN "CreditLimitExceeded"
  ELSE IF \E i \in StudentEnrollments(rs, s, x) :
             /\ rs[i].status = "Enrolled"
             /\ section[x].TimeSlot # ""
             /\ section[rs[i].section].TimeSlot = section[x].TimeSlot
    THEN "TimeConflict"
  ELSE IF \E i \in RowIds(rs) :
             rs[i].student = s /\ rs[i].section = x /\ rs[i].status = "Enrolled"
    THEN "AlreadyEnrolled"
  ELSE ""

\* An enroll procedure that re-validates the capacity only and leaves the
\* other checks to the caller's earlier validation.
EnrollRefusalCapacityOnly(rs, s, x) ==
  IF x \notin Sections \/ AvailableSpots(rs, x) <= 0 THEN "SectionFull" ELSE ""

\* The reason for which the atomic enroll refuses (s, x), "" when it
\* accepts: the eligibility re-check made inside the transaction.
EnrollRefusal(rs, s, x) ==
  IF x \notin Sections \/ AvailableSpots(rs, x) <= 0 THEN "SectionFull"
  ELSE IF CurrentCredits(rs, s, x) + section[x].Credits > MAX_CREDITS_PER_SEMESTER
    THEN "CreditLimitExceeded"
  ELSE IF \E i \in StudentEnrollments(rs, s, x) :
             /\ rs[i].status = "Enrolled"
             /\ section[x].TimeSlot # ""
             /\ section[rs[i].section].TimeSlot = section[x].TimeSlot
    THEN "TimeConflict"
  ELSE IF \E i \in RowIds(rs) :
             rs[i].student = s /\ rs[i].section = x /\ rs[i].status = "Enrolled"
    THEN "AlreadyEnrolled"
  ELSE ""

\* sp_EnrollStudent(student, section, OUT result, OUT success): one atomic
\* transaction that re-checks eligibility and inserts the Enrolled row.
sp_EnrollStudent(rs, s, x) ==
  LET why == EnrollRefusal(rs, s, x)
  IN IF why = ""
       THEN [rows |-> Append(rs, NewRow(s, x)), success |-> 1, result |-> "Enrolled"]
       ELSE [rows |-> rs, success |-> 0, result |-> why]

(* ------------------------ the connection pool -------------------------- *)

\* The session state of one connection: the user variables @result,
\* @success, @gpa and @total_credits (<<>> is NULL) and the value of
\* LAST_INSERT_ID().
NullVars == [result |-> <<>>, success |-> <<>>, last_insert_id |-> 0,
             gpa |-> <<>>, total_credits |-> <<>>]

\* pooling.MySQLConnectionPool.get_connection: the pool is a FIFO queue.
GetConnection(pl) == Head(pl)

\* connection.close() of a pooled connection: the session is reset when
\* pool_reset_session is set, and the connection goes to the back of the
\* queue.
CloseConnection(pl, cnx) ==
  Append(Tail(pl), IF POOL_RESET_SESSION THEN NullVars ELSE cnx)

\* A gateway operation that leaves the user variables alone.
PlainOperation(pl) == CloseConnection(pl, GetConnection(pl))

(* ------------------------ accounts and profiles ------------------------ *)

\* bcrypt.hashpw and bcrypt.checkpw: a hash matches the password it was made
\* from and no other.
hashpw(password) == <<"bcrypt", password>>

checkpw(password, hashed) == hashed = hashpw(password)

\* The User table before the sessions start: two students, an instructor
\* and an administrator, none of whom has logged in yet.
SeedUsers ==
  { [user_id |-> 1, username |-> "alice", password |-> hashpw("pw-alice"),
     user_type |-> "Student", status |-> "Active", last_login_date |-> <<>>],
    [user_id |-> 2, username |-> "bob", password |-> hashpw("pw-bob"),
     user_type |-> "Student", status |-> "Active", last_login_date |-> <<>>],
    [user_id |-> 3, username |-> "ivy", password |-> hashpw("pw-ivy"),
     user_type |-> "Instructor", status |-> "Active", last_login_date |-> <<>>],
    [user_id |-> 4, username |-> "root", password |-> hashpw("pw-root"),
     user_type |-> "Admin", status |-> "Active", last_login_date |-> <<>>] }

\* The Student and Instructor tables before the sessions start.
SeedProfiles ==
  { [kind |-> "Student", id |-> "s1", user_id |-> 1],
    [kind |-> "Student", id |-> "s2", user_id |-> 2],
    [kind |-> "Instructor", id |-> "i1", user_id |-> 3] }

\* UPDATE User SET LastLoginDate = NOW() WHERE UserID = id
update_last_login(us, id) ==
  {IF a.user_id = id THEN [a EXCEPT !.last_login_date = <<"NOW()">>] ELSE a : a \in us}

\* UserDAO.authenticate_user: the User object of the Active row of that
\* name when the password matches its hash, <<>> (None) otherwise.  The
\* object carries the LastLoginDate read before update_last_login.
authenticate_user(us, username, password) ==
  LET res == {a \in us : a.username = username /\ a.status = "Active"}
  IN IF res # {} /\ checkpw(password, (CHOOSE a \in res : TRUE).password)
       THEN LET a == CHOOSE b \in res : TRUE
            IN <<[user_id |-> a.user_id, username |-> a.username,
                  user_type |-> a.user_type, status |-> a.status,
                  last_login_date |-> a.last_login_date]>>
       ELSE <<>>

\* StudentDAO.get_student_by_user_id: the profile or <<>> (None).
get_student_by_user_id(pf, user_id) ==
  LET res == {r \in pf : r.kind = "Student" /\ r.user_id = user_id}
  IN IF res = {} THEN <<>> ELSE <<CHOOSE r \in res : TRUE>>

\* InstructorDAO.get_instructor_by_user_id: the profile or <<>> (None).
get_instructor_by_user_id(pf, user_id) ==
  LET res == {r \in pf : r.kind = "Instructor" /\ r.user_id = user_id}
  IN IF res = {} THEN <<>> ELSE <<CHOOSE r \in res : TRUE>>

\* The AUTO_INCREMENT value of the next User row.
NextUserId(us) ==
  IF us = {} THEN 1
  ELSE (CHOOSE a \in us : \A b \in us : b.user_id <= a.user_id).user_id + 1

\* The store refuses a User row whose username is taken.
AccountInsertRefusal(us, username) == \E a \in us : a.username = username

\* The store refuses a profile row whose identifier is taken, or whose
\* UserID is not the id of an Account, or is that of an Account that owns
\* a profile already.
ProfileInsertRefusal(pf, us, kind, id, user_id) ==
  \/ \E r \in pf : r.kind = kind /\ r.id = id
  \/ ~\E a \in us : a.user_id = user_id
  \/ \E r \in pf : r.user_id = user_id

(* ------------------------ AuthenticationService ------------------------ *)

\* The state __init__ and logout leave.
NoSession == [current_user |-> <<>>, current_student |-> <<>>, current_instructor |-> <<>>]

\* The session of a student who logged in from the login menu.
StudentSession(s) ==
  LET pr == CHOOSE r \in SeedProfiles : r.kind = "Student" /\ r.id = s
      a  == CHOOSE b \in SeedUsers : b.user_id = pr.user_id
  IN [current_user |-> authenticate_user(SeedUsers, a.username, a.password[2]),
      current_student |-> <<pr>>,
      current_instructor |-> <<>>]

is_authenticated(a) == a.current_user # <<>>

has_role(a, role) == a.current_user # <<>> /\ a.current_user[1].user_type = role

(* ----------------------------------------------------------------------- *)

NoArg == 0

\* The OUT values of the procedure call a session has made in its current
\* enroll attempt.
NoProc == [called |-> FALSE, success |-> 0, result |-> ""]

\* What the last operation of a session handed to its caller: the operation,
\* the (success, message) pair, the number of gateway operations it made,
\* for an enroll the OUT values of its own procedure call, and the text of
\* the database error that struck it, if one did.  A message built from an
\* exception text is the sequence of its parts.
NoRet == [op |-> "none", ok |-> FALSE, msg |-> "", db |-> 0, proc |-> NoProc,
          err |-> <<>>, val |-> <<>>]

\* The Enrollment table is empty; every session is logged in as a student
\* (two sessions of one student, or of two students) and shows its menu.
Init ==
  /\ section \in Catalogs
  /\ rows = <<>>
  /\ who \in {w \in [Sessions -> Students] : w["p1"] = "s1"}
  /\ pc = [p \in Sessions |-> "idle"]
  /\ arg = [p \in Sessions |-> NoArg]
  /\ pool = [p \in Sessions |-> [i \in 1..POOL_SIZE |-> NullVars]]
  /\ proc = [p \in Sessions |-> NoProc]
  /\ ret = [p \in Sessions |-> NoRet]
  /\ users = {IF \E p \in Sessions : a.user_id = StudentSession(who[p]).current_user[1].user_id
                THEN [a EXCEPT !.last_login_date = <<"NOW()">>] ELSE a : a \in SeedUsers}
  /\ profiles = SeedProfiles
  /\ auth = [p \in Sessions |-> StudentSession(who[p])]

\* The service call of session p returns r to the menu, which prints it.
Finish(p, r) ==
  /\ pc' = [pc EXCEPT ![p] = "done"]
  /\ proc' = [proc EXCEPT ![p] = NoProc]
  /\ ret' = [ret EXCEPT ![p] = r]

\* wait_for_key: the menu is shown again.
Return(p) ==
  /\ pc[p] = "done"
  /\ pc' = [pc EXCEPT ![p] = "idle"]
  /\ arg' = [arg EXCEPT ![p] = NoArg]
  /\ ret' = [ret EXCEPT ![p] = NoRet]
  /\ UNCHANGED <<users, profiles, auth, section, rows, who, pool, proc>>

\* StudentMenu.enroll_in_course: the user types a section id.
StartEnroll(p, x) ==
  /\ pc[p] = "idle"
  /\ pc' = [pc EXCEPT ![p] = "validate_section"]
  /\ arg' = [arg EXCEPT ![p] = x]
  /\ UNCHANGED <<users, profiles, auth, section, rows, who, pool, proc, ret>>

\* validate_enrollment_eligibility, first read: get_section_by_id and the
\* capacity check.
ValidateSection(p) ==
  /\ pc[p] = "validate_section"
  /\ pool' = [pool EXCEPT ![p] = PlainOperation(pool[p])]
  /\ LET x == arg[p]
     IN IF x \notin Sections
          THEN Finish(p, [NoRet EXCEPT !.op = "validate", !.msg = "Section not found", !.db = 1])
        ELSE IF AvailableSpots(rows, x) <= 0
          THEN Finish(p, [NoRet EXCEPT !.op = "validate", !.msg = "Section is full", !.db = 1])
        ELSE /\ pc' = [pc EXCEPT ![p] = "validate_enrollments"]
             /\ UNCHANGED <<proc, ret>>
  /\ UNCHANGED <<users, profiles, auth, section, rows, who, arg>>

\* A menu that goes on to the enrollment whatever the validation said.
ValidateEnrollmentsNoGate(p) ==
  /\ pc[p] = "validate_enrollments"
  /\ pool' = [pool EXCEPT ![p] = PlainOperation(pool[p])]
  /\ pc' = [pc EXCEPT ![p] = "enroll"]
  /\ UNCHANGED <<users, profiles, auth, section, rows, who, arg, proc, ret>>

\* validate_enrollment_eligibility, second read: get_student_enrollments
\* and the checks on it; a warning makes the menu ask for confirmation.
ValidateEnrollments(p) ==
  /\ pc[p] = "validate_enrollments"
  /\ pool' = [pool EXCEPT ![p] = PlainOperation(pool[p])]
  /\ LET chk == CheckEnrollments(rows, who[p], arg[p])
     IN IF ~chk[1]
          THEN Finish(p, [NoRet EXCEPT !.op = "validate", !.msg = chk[2], !.db = 2])
          ELSE /\ pc' = [pc EXCEPT ![p] = IF chk[3] THEN "confirm" ELSE "enroll"]
               /\ UNCHANGED <<proc, ret>>
  /\ UNCHANGED <<users, profiles, auth, section, rows, who, arg>>

\* confirm_action("Do you want to continue?") after a warning.
Confirm(p, yes) ==
  /\ pc[p] = "confirm"
  /\ IF yes
       THEN pc' = [pc EXCEPT ![p] = "enroll"] /\ UNCHANGED <<proc, ret>>
       ELSE Finish(p, [NoRet EXCEPT !.op = "declined", !.db = 2])
  /\ UNCHANGED <<users, profiles, auth, section, rows, who, arg, pool>>

\* enroll_student, first statement: execute_update of the CALL on a
\* connection of the pool; the OUT values stay in that connection's user
\* variables, the transaction is committed and the connection closed.
CallProcedure(p) ==
  /\ pc[p] = "enroll"
  /\ LET r == sp_EnrollStudent(rows, who[p], arg[p])
     IN /\ Len(r.rows) <= MaxRows
        /\ rows' = r.rows
        /\ proc' = [proc EXCEPT ![p] =
                      [called |-> TRUE, success |-> r.success, result |-> r.result]]
        /\ pool' = [pool EXCEPT ![p] =
                      CloseConnection(pool[p],
                          [GetConnection(pool[p]) EXCEPT
                             !.result = <<r.result>>,
                             !.success = <<r.success>>,
                             !.last_insert_id =
                                IF r.success = 1 THEN Len(r.rows) ELSE @])]
  /\ pc' = [pc EXCEPT ![p] = "read_result"]
  /\ UNCHANGED <<users, profiles, auth, section, who, arg, ret>>

\* What enroll_student makes of the row of SELECT @result, @success.
EnrollOutcome(cnx) ==
  [ok  |-> IF cnx.success # <<>> THEN cnx.success[1] = 1 ELSE FALSE,
   msg |-> IF cnx.result # <<>> /\ cnx.result[1] # "" THEN cnx.result[1]
           ELSE "Unknown error"]

\* enroll_student, second statement: execute_query of SELECT @result,
\* @success on the connection the pool hands out now; enroll_in_course
\* passes the pair on.
ReadResult(p) ==
  /\ pc[p] = "read_result"
  /\ LET cnx == GetConnection(pool[p])
         o   == EnrollOutcome(cnx)
     IN /\ pool' = [pool EXCEPT ![p] = CloseConnection(pool[p], cnx)]
        /\ Finish(p, [op |-> "enroll", ok |-> o.ok, msg |-> o.msg, db |-> 4,
                      proc |-> proc[p], err |-> <<>>, val |-> <<>>])
  /\ UNCHANGED <<users, profiles, auth, section, rows, who, arg>>

\* A drop whose WHERE clause does not ask for Status = 'Enrolled'.
DropRowsAnyStatus(rs, s, x) ==
  [i \in RowIds(rs) |->
     IF rs[i].student = s /\ rs[i].section = x
       THEN [rs[i] EXCEPT !.status = "Dropped"]
       ELSE rs[i]]

\* A drop that forgets the student of the pair.
DropRowsAnyStudent(rs, s, x) ==
  [i \in RowIds(rs) |->
     IF rs[i].section = x /\ rs[i].status = "Enrolled"
       THEN [rs[i] EXCEPT !.status = "Dropped"]
       ELSE rs[i]]

\* UPDATE Enrollment SET Status = 'Dropped' WHERE StudentID = s AND
\* SectionID = x AND Status = 'Enrolled'
DropRows(rs, s, x) ==
  [i \in RowIds(rs) |->
     IF rs[i].student = s /\ rs[i].section = x /\ rs[i].status = "Enrolled"
       THEN [rs[i] EXCEPT !.status = "Dropped"]
       ELSE rs[i]]

\* cursor.rowcount of an UPDATE: the number of rows it changed.
RowsAffected(before, after) ==
  Cardinality({i \in RowIds(before) : before[i] # after[i]})

\* StudentService.drop_course -> EnrollmentDAO.drop_enrollment
DropCourse(p, x) ==
  /\ pc[p] = "idle"
  /\ rows' = DropRows(rows, who[p], x)
  /\ pool' = [pool EXCEPT ![p] = PlainOperation(pool[p])]
  /\ arg' = [arg EXCEPT ![p] = x]
  /\ Finish(p, IF RowsAffected(rows, rows') > 0
                 THEN [NoRet EXCEPT !.op = "drop", !.ok = TRUE, !.db = 1,
                                    !.msg = "Course dropped successfully"]
                 ELSE [NoRet EXCEPT !.op = "drop", !.db = 1,
                                    !.msg = "Failed to drop course - enrollment not found or already dropped"])
  /\ UNCHANGED <<users, profiles, auth, section, who>>

\* A range check that forgets the upper end.
ValidGradeNoUpper(g) == 0 <= g

\* if not (0 <= final_grade <= 100)
ValidGrade(g) == 0 <= g /\ g <= 1000

\* A passing test with > in place of >=.
GradeStatusStrict(g) == IF g > PASSING_GRADE THEN "Completed" ELSE "Failed"

\* CASE WHEN grade >= 60 THEN 'Completed' ELSE 'Failed' END
GradeStatus(g) == IF g >= PASSING_GRADE THEN "Completed" ELSE "Failed"

\* UPDATE Enrollment SET FinalGrade, GradePoints, Status WHERE
\* EnrollmentID = id
GradeRows(rs, id, g) ==
  [i \in RowIds(rs) |->
     IF i = id
       THEN [rs[i] EXCEPT !.final_grade = <<g>>,
                          !.grade_points = <<calculate_grade_points(g)>>,
                          !.status = GradeStatus(g)]
       ELSE rs[i]]

\* InstructorService.update_student_grade -> EnrollmentDAO.update_grade
UpdateStudentGrade(p, id, g) ==
  /\ pc[p] = "idle"
  /\ IF ~ValidGrade(g)
       THEN /\ Finish(p, [NoRet EXCEPT !.op = "grade",
                                       !.msg = "Grade must be between 0 and 100"])
            /\ UNCHANGED <<rows, pool>>
       ELSE /\ rows' = GradeRows(rows, id, g)
            /\ pool' = [pool EXCEPT ![p] = PlainOperation(pool[p])]
            /\ Finish(p, IF RowsAffected(rows, rows') > 0
                           THEN [NoRet EXCEPT !.op = "grade", !.ok = TRUE, !.db = 1,
                                              !.msg = "Grade updated successfully"]
                           ELSE [NoRet EXCEPT !.op = "grade", !.db = 1,
                                              !.msg = "Failed to update grade - enrollment not found"])
  /\ UNCHANGED <<users, profiles, auth, section, who, arg>>

(* ------------------------------- GPA ----------------------------------- *)

\* The ids of the student's Completed rows.
CompletedRows(rs, s) ==
  {i \in RowIds(rs) : rs[i].student = s /\ rs[i].status = "Completed"}

RECURSIVE SumPoints(_, _)
SumPoints(rs, ids) ==
  IF ids = {} THEN 0
  ELSE LET i == CHOOSE j \in ids : TRUE
       IN rs[i].grade_points[1] * section[rs[i].section].Credits
            + SumPoints(rs, ids \ {i})

\* sp_CalculateGPA(student, OUT gpa, OUT total_credits): the credit-weighted
\* mean of the grade points of the Completed rows, in hundredths, and the
\* sum of their credits; both NULL for a student with no Completed row.
sp_CalculateGPA(rs, s) ==
  LET done == CompletedRows(rs, s)
  IN IF done = {}
       THEN [gpa |-> <<>>, total_credits |-> <<>>]
       ELSE [gpa |-> <<(SumPoints(rs, done) * 10) \div SumCredits(rs, done)>>,
             total_credits |-> <<SumCredits(rs, done)>>]

\* float(v) if v else 0.0
FloatOrZero(v) == IF v # <<>> /\ v[1] # 0 THEN v[1] ELSE 0

\* get_student_gpa, first statement: execute_update of CALL
\* sp_CalculateGPA; the OUT values stay in the user variables of the
\* connection, which is closed.
CallGpa(p) ==
  /\ pc[p] = "idle"
  /\ LET r == sp_CalculateGPA(rows, who[p])
     IN pool' = [pool EXCEPT ![p] =
                   CloseConnection(pool[p],
                     [GetConnection(pool[p]) EXCEPT !.gpa = r.gpa,
                                                    !.total_credits = r.total_credits])]
  /\ pc' = [pc EXCEPT ![p] = "gpa_read"]
  /\ arg' = [arg EXCEPT ![p] = NullVars]
  /\ UNCHANGED <<users, profiles, auth, section, rows, who, proc, ret>>

\* get_student_gpa, second statement: execute_query of SELECT @gpa,
\* @total_credits on the connection the pool hands out now.
ReadGpa(p) ==
  /\ pc[p] = "gpa_read"
  /\ LET cnx == GetConnection(pool[p])
     IN /\ pool' = [pool EXCEPT ![p] = CloseConnection(pool[p], cnx)]
        /\ arg' = [arg EXCEPT ![p] = cnx]
  /\ pc' = [pc EXCEPT ![p] = "gpa_info"]
  /\ UNCHANGED <<users, profiles, auth, section, rows, who, proc, ret>>

\* get_student_gpa, third statement: the course counts of the student, and
\* the StudentGPA object built from the two results.
StudentInfo(p) ==
  /\ pc[p] = "gpa_info"
  /\ pool' = [pool EXCEPT ![p] = PlainOperation(pool[p])]
  /\ Finish(p, [NoRet EXCEPT
                  !.op = "gpa", !.ok = TRUE, !.db = 3,
                  !.val = [student_id |-> who[p],
                           total_credits |-> FloatOrZero(arg[p].total_credits),
                           completed_credits |-> FloatOrZero(arg[p].total_credits),
                           gpa |-> FloatOrZero(arg[p].gpa),
                           total_courses |->
                             Cardinality({i \in RowIds(rows) : rows[i].student = who[p]}),
                           completed_courses |->
                             Cardinality(CompletedRows(rows, who[p]))]])
  /\ UNCHANGED <<users, profiles, auth, section, rows, who, arg>>

(* ------------------------ persistence failures ------------------------- *)

\* str(e) of the database errors that strike a statement, in parts: a lost
\* connection, and a condition signalled with an "Error:" message text.
DbErrors ==
  { <<"2013 (HY000):", "Lost connection to MySQL server during query">>,
    <<"1644 (45000):", "Error:", "Enrollment is closed">> }

\* substring in text
Contains(text, substring) == \E i \in 1..Len(text) : text[i] = substring

\* connection.is_connected() after the statement raised e.
is_connected(e) == ~Contains(e, "Lost connection to MySQL server during query")

\* get_connection around a statement that raises e: the except branch rolls
\* back, and the finally branch closes the connection, which returns it to
\* the pool, only if it is still connected.
FailedOperation(pl, e) ==
  IF is_connected(e) THEN PlainOperation(pl) ELSE Tail(pl)

\* The connections of the pool that may be lost in one run.
MayFail(pl, e) == is_connected(e) \/ Len(pl) > POOL_SIZE - MaxLost

\* BaseDAO._handle_db_error: str() of the exception it raises.
handle_db_error(operation) == <<"Database operation failed:", operation>>

\* The except branch of enroll_student and that of enroll_in_course: the
\* message of the failure result for the database error e.
EnrollStudentFailed(e) ==
  IF Contains(e, "Error:")
    THEN e
    ELSE <<"Enrollment failed:">> \o handle_db_error("enroll_student")

\* enroll_student whose CALL raises e: nothing is committed.
FailCallProcedure(p, e) ==
  /\ pc[p] = "enroll"
  /\ MayFail(pool[p], e)
  /\ pool' = [pool EXCEPT ![p] = FailedOperation(pool[p], e)]
  /\ Finish(p, [NoRet EXCEPT !.op = "enroll", !.db = 3, !.err = e,
                             !.msg = EnrollStudentFailed(e)])
  /\ UNCHANGED <<users, profiles, auth, section, rows, who, arg>>

\* enroll_student whose SELECT @result, @success raises e, after the CALL
\* was committed.
FailReadResult(p, e) ==
  /\ pc[p] = "read_result"
  /\ MayFail(pool[p], e)
  /\ pool' = [pool EXCEPT ![p] = FailedOperation(pool[p], e)]
  /\ Finish(p, [NoRet EXCEPT !.op = "enroll", !.db = 4, !.err = e,
                             !.proc = proc[p],
                             !.msg = EnrollStudentFailed(e)])
  /\ UNCHANGED <<users, profiles, auth, section, rows, who, arg>>

\* drop_course whose UPDATE raises e.
FailDropCourse(p, x, e) ==
  /\ pc[p] = "idle"
  /\ MayFail(pool[p], e)
  /\ pool' = [pool EXCEPT ![p] = FailedOperation(pool[p], e)]
  /\ arg' = [arg EXCEPT ![p] = x]
  /\ Finish(p, [NoRet EXCEPT !.op = "drop", !.db = 1, !.err = e,
                             !.msg = <<"Drop failed:">> \o handle_db_error("drop_enrollment")])
  /\ UNCHANGED <<users, profiles, auth, section, rows, who>>

\* update_student_grade, for a grade in range, whose UPDATE raises e.
FailUpdateStudentGrade(p, id, g, e) ==
  /\ pc[p] = "idle"
  /\ ValidGrade(g)
  /\ MayFail(pool[p], e)
  /\ pool' = [pool EXCEPT ![p] = FailedOperation(pool[p], e)]
  /\ Finish(p, [NoRet EXCEPT !.op = "grade", !.db = 1, !.err = e,
                             !.msg = <<"Grade update failed:">> \o handle_db_error("update_grade")])
  /\ UNCHANGED <<users, profiles, auth, section, rows, who, arg>>

(* ------------------------- login and logout --------------------------- *)

\* The names and passwords typed at the login prompt.
Credentials ==
  { <<"alice", "pw-alice">>, <<"alice", "pw-bob">>, <<"ivy", "pw-ivy">>,
    <<"root", "pw-root">>, <<"dave", "pw-dave">>, <<"nobody", "pw-alice">> }

\* The gateway operation of a login that raises, if any.
LoginFaults == {"none", "authenticate_user", "update_last_login", "load_profile"}

\* The attributes login assigns once authenticate_user has returned a
\* user: current_user, and the profile attribute of the user's role.
SessionAfterLogin(a, user, pf) ==
  [current_user |-> user,
   current_student |->
     IF user[1].user_type = "Student"
       THEN get_student_by_user_id(pf, user[1].user_id) ELSE a.current_student,
   current_instructor |->
     IF user[1].user_type = "Instructor"
       THEN get_instructor_by_user_id(pf, user[1].user_id) ELSE a.current_instructor]

\* AuthenticationService.login(username, password)
Login(p, username, password, fault) ==
  /\ pc[p] = "idle"
  /\ LET user == authenticate_user(users, username, password)
         sys  == [NoRet EXCEPT !.op = "login", !.db = 1,
                               !.msg = <<"Login failed due to system error">>]
     IN IF fault = "authenticate_user"
          THEN /\ Finish(p, sys)
               /\ UNCHANGED <<users, auth>>
        ELSE IF user = <<>>
          THEN /\ Finish(p, [NoRet EXCEPT !.op = "login", !.db = 1,
                                          !.msg = <<"Invalid username or password">>])
               /\ UNCHANGED <<users, auth>>
        ELSE /\ users' = IF fault = "update_last_login" THEN users
                         ELSE update_last_login(users, user[1].user_id)
             /\ IF fault = "load_profile" /\ user[1].user_type \in {"Student", "Instructor"}
                  THEN /\ auth' = [auth EXCEPT ![p].current_user = user]
                       /\ Finish(p, [sys EXCEPT !.db = 3])
                  ELSE /\ auth' = [auth EXCEPT ![p] = SessionAfterLogin(auth[p], user, profiles)]
                       /\ Finish(p, [NoRet EXCEPT !.op = "login", !.ok = TRUE, !.db = 3,
                                                  !.msg = <<"Welcome,", username>>])
  /\ pool' = [pool EXCEPT ![p] = PlainOperation(pool[p])]
  /\ arg' = [arg EXCEPT ![p] = username]
  /\ UNCHANGED <<section, rows, who, profiles>>

\* AuthenticationService.logout()
Logout(p) ==
  /\ pc[p] = "idle"
  /\ auth' = [auth EXCEPT ![p] = NoSession]
  /\ UNCHANGED <<section, rows, who, pc, arg, pool, proc, ret, users, profiles>>

(* ---------------------------- registration ---------------------------- *)

\* What a user types in the registration forms: a new student, a student
\* id that is taken, a new instructor, a username that is taken.
RegistrationInputs ==
  { [kind |-> "Student", username |-> "carol", password |-> "pw-carol", id |-> "s3"],
    [kind |-> "Student", username |-> "dave", password |-> "pw-dave", id |-> "s1"],
    [kind |-> "Instructor", username |-> "erin", password |-> "pw-erin", id |-> "i2"],
    [kind |-> "Student", username |-> "alice", password |-> "pw-alice", id |-> "s4"] }

\* What register_student and register_instructor return when the DAO
\* raises: f"Registration failed: {str(e)}", e being the exception of
\* _handle_db_error.
RegistrationFailed(kind) ==
  [NoRet EXCEPT !.op = "register",
                !.msg = <<"Registration failed:", "Database operation failed:",
                          IF kind = "Student" THEN "create_student"
                                              ELSE "create_instructor">>]

\* create_student / create_instructor -> create_user, first statement: the
\* INSERT INTO User, committed by execute_update on a connection that then
\* goes back to the pool.
RegisterInsertUser(p, d, fault) ==
  /\ pc[p] = "idle"
  /\ IF fault \/ AccountInsertRefusal(users, d.username)
       THEN /\ arg' = [arg EXCEPT ![p] = [d EXCEPT !.password = hashpw(d.password)]
                                            @@ [account |-> 0, user_id |-> 0]]
            /\ Finish(p, [RegistrationFailed(d.kind) EXCEPT !.db = 1])
            /\ pool' = [pool EXCEPT ![p] = PlainOperation(pool[p])]
            /\ UNCHANGED users
       ELSE /\ Cardinality(users) < MaxUsers
            /\ LET id == NextUserId(users)
               IN /\ users' = users \cup
                       { [user_id |-> id, username |-> d.username,
                          password |-> hashpw(d.password), user_type |-> d.kind,
                          status |-> "Active", last_login_date |-> <<>>] }
                  /\ arg' = [arg EXCEPT ![p] = [d EXCEPT !.password = hashpw(d.password)]
                                                  @@ [account |-> id, user_id |-> 0]]
                  /\ pool' = [pool EXCEPT ![p] =
                                CloseConnection(pool[p],
                                  [GetConnection(pool[p]) EXCEPT !.last_insert_id = id])]
            /\ pc' = [pc EXCEPT ![p] = "reg_read_id"]
            /\ UNCHANGED <<proc, ret>>
  /\ UNCHANGED <<section, rows, who, profiles, auth>>

\* create_user, second statement: SELECT LAST_INSERT_ID() by execute_query,
\* on the connection the pool hands out now.
RegisterReadId(p, fault) ==
  /\ pc[p] = "reg_read_id"
  /\ LET cnx == GetConnection(pool[p])
     IN /\ pool' = [pool EXCEPT ![p] = CloseConnection(pool[p], cnx)]
        /\ IF fault
             THEN /\ Finish(p, [RegistrationFailed(arg[p].kind) EXCEPT !.db = 2])
                  /\ UNCHANGED arg
             ELSE /\ arg' = [arg EXCEPT ![p].user_id = cnx.last_insert_id]
                  /\ pc' = [pc EXCEPT ![p] = "reg_profile"]
                  /\ UNCHANGED <<proc, ret>>
  /\ UNCHANGED <<section, rows, who, users, profiles, auth>>

\* create_student / create_instructor, last statement: the INSERT of the
\* profile row with the user id create_user returned.
RegisterInsertProfile(p, fault) ==
  /\ pc[p] = "reg_profile"
  /\ LET d == arg[p]
     IN IF fault \/ ProfileInsertRefusal(profiles, users, d.kind, d.id, d.user_id)
          THEN /\ Finish(p, [RegistrationFailed(d.kind) EXCEPT !.db = 3])
               /\ UNCHANGED profiles
          ELSE /\ profiles' = profiles \cup
                    {[kind |-> d.kind, id |-> d.id, user_id |-> d.user_id]}
               /\ Finish(p, [NoRet EXCEPT !.op = "register", !.ok = TRUE, !.db = 3,
                                          !.msg = <<d.kind, d.id, "registered successfully">>])
  /\ pool' = [pool EXCEPT ![p] = PlainOperation(pool[p])]
  /\ UNCHANGED <<section, rows, who, arg, users, auth>>

Next ==
  \/ \E p \in Sessions, x \in SectionIds : StartEnroll(p, x)
  \/ \E p \in Sessions : ValidateSection(p)
  \/ \E p \in Sessions : ValidateEnrollments(p)
  \/ \E p \in Sessions, yes \in BOOLEAN : Confirm(p, yes)
  \/ \E p \in Sessions : CallProcedure(p)
  \/ \E p \in Sessions : ReadResult(p)
  \/ \E p \in Sessions, x \in Sections : DropCourse(p, x)
  \/ \E p \in Sessions, id \in 1..(Len(rows) + 1), g \in GradeInputs :
       UpdateStudentGrade(p, id, g)
  \/ \E p \in Sessions : Return(p)

Spec == Init /\ [][Next]_vars

\* One session working alone, with the wider choice of grades.
SoloNext ==
  \/ \E x \in SectionIds : StartEnroll("p1", x)
  \/ ValidateSection("p1")
  \/ ValidateEnrollments("p1")
  \/ \E yes \in BOOLEAN : Confirm("p1", yes)
  \/ CallProcedure("p1")
  \/ ReadResult("p1")
  \/ \E x \in Sections : DropCourse("p1", x)
  \/ \E id \in 1..(Len(rows) + 1), g \in SoloGradeInputs :
       UpdateStudentGrade("p1", id, g)
  \/ CallGpa("p1")
  \/ ReadGpa("p1")
  \/ StudentInfo("p1")
  \/ Return("p1")

\* As Init, with the wider choice of catalogs.
SoloInit ==
  /\ section \in SoloCatalogs
  /\ rows = <<>>
  /\ who \in {w \in [Sessions -> Students] : w["p1"] = "s1"}
  /\ pc = [p \in Sessions |-> "idle"]
  /\ arg = [p \in Sessions |-> NoArg]
  /\ pool = [p \in Sessions |-> [i \in 1..POOL_SIZE |-> NullVars]]
  /\ proc = [p \in Sessions |-> NoProc]
  /\ ret = [p \in Sessions |-> NoRet]
  /\ users = {IF \E p \in Sessions : a.user_id = StudentSession(who[p]).current_user[1].user_id
                THEN [a EXCEPT !.last_login_date = <<"NOW()">>] ELSE a : a \in SeedUsers}
  /\ profiles = SeedProfiles
  /\ auth = [p \in Sessions |-> StudentSession(who[p])]

SpecSolo == SoloInit /\ [][SoloNext]_vars

\* One session working alone while database errors strike the statements
\* of its enroll, drop and grade operations.
FaultsNext ==
  \/ SoloNext
  \/ \E e \in DbErrors : FailCallProcedure("p1", e)
  \/ \E e \in DbErrors : FailReadResult("p1", e)
  \/ \E x \in Sections, e \in DbErrors : FailDropCourse("p1", x, e)
  \/ \E id \in 1..(Len(rows) + 1), g \in GradeInputs, e \in DbErrors :
       FailUpdateStudentGrade("p1", id, g, e)

SpecFaults == SoloInit /\ [][FaultsNext]_vars

\* As Init, with the first catalog and the two sessions of two students.
AccountsInit ==
  /\ Init
  /\ section[2].Credits = 38
  /\ who["p2"] = "s2"

\* One session at the login menu and in its AuthenticationService: login,
\* logout and the two registrations.
AccountsNext ==
  \/ \E c \in Credentials, f \in LoginFaults : Login("p1", c[1], c[2], f)
  \/ Logout("p1")
  \/ \E d \in RegistrationInputs, f \in BOOLEAN : RegisterInsertUser("p1", d, f)
  \/ \E f \in BOOLEAN : RegisterReadId("p1", f)
  \/ \E f \in BOOLEAN : RegisterInsertProfile("p1", f)
  \/ Return("p1")

SpecAccounts == AccountsInit /\ [][AccountsNext]_vars

(* ----------------------------- the menus ------------------------------ *)

\* A main loop that shows the student menu to whoever is logged in.
MenuShownAnyRole(a) ==
  IF ~is_authenticated(a) THEN "login" ELSE "student"

\* One turn of UIManager.run with CourseRegistrationUI.show_main_menu: the
\* menu the loop shows for the session state a; with "unknown" the session
\* is logged out.
MenuShown(a) ==
  IF ~is_authenticated(a) THEN "login"
  ELSE IF has_role(a, "Student") THEN "student"
  ELSE IF has_role(a, "Instructor") THEN "instructor"
  ELSE IF has_role(a, "Admin") THEN "admin"
  ELSE "unknown"

\* get_current_user_info().get('student_id'): <<>> is None.
student_id(a) ==
  IF is_authenticated(a) /\ a.current_student # <<>>
    THEN <<a.current_student[1].id>> ELSE <<>>

\* LoginMenu: Login
UiLogin(p, username, password, fault) ==
  /\ MenuShown(auth[p]) = "login"
  /\ Login(p, username, password, fault)

\* LoginMenu: Register as Student, Register as Instructor
UiRegister(p, d, fault) ==
  /\ MenuShown(auth[p]) = "login"
  /\ RegisterInsertUser(p, d, fault)

\* StudentMenu, InstructorMenu, AdminMenu: Logout; and the logout of
\* show_main_menu for a role it does not know.
UiLogout(p) ==
  /\ MenuShown(auth[p]) \in {"student", "instructor", "admin", "unknown"}
  /\ Logout(p)

\* StudentMenu: Enroll in Course
UiEnroll(p, x) ==
  /\ MenuShown(auth[p]) = "student"
  /\ student_id(auth[p]) = <<who[p]>>
  /\ StartEnroll(p, x)

\* StudentMenu: Drop Course, for a section picked from the list of the
\* student's Enrolled rows.
UiDropCourse(p, x) ==
  /\ MenuShown(auth[p]) = "student"
  /\ student_id(auth[p]) = <<who[p]>>
  /\ \E i \in RowIds(rows) :
       rows[i].student = who[p] /\ rows[i].section = x /\ rows[i].status = "Enrolled"
  /\ DropCourse(p, x)

\* StudentMenu: View GPA
UiViewGpa(p) ==
  /\ MenuShown(auth[p]) = "student"
  /\ student_id(auth[p]) = <<who[p]>>
  /\ CallGpa(p)

\* StudentMenu for a session without a student profile (student_id is
\* None): the lists are empty and the store enrolls no student that does
\* not exist, so the choice reads and writes nothing.
StudentMenuWithoutProfile(p) ==
  /\ pc[p] = "idle"
  /\ MenuShown(auth[p]) = "student"
  /\ student_id(auth[p]) = <<>>
  /\ pool' = [pool EXCEPT ![p] = PlainOperation(pool[p])]
  /\ Finish(p, [NoRet EXCEPT !.op = "student", !.db = 1])
  /\ UNCHANGED <<users, profiles, auth, section, rows, who, arg>>

\* InstructorMenu: Update Student Grades, for a row picked from the roster
\* entries that are Enrolled or Completed.
UiUpdateGrades(p, id, g) ==
  /\ MenuShown(auth[p]) = "instructor"
  /\ id \in RowIds(rows)
  /\ rows[id].status \in {"Enrolled", "Completed"}
  /\ UpdateStudentGrade(p, id, g)

\* AdminMenu: one of the management choices, as far as this state goes a
\* read.
AdminMenuChoice(p) ==
  /\ pc[p] = "idle"
  /\ MenuShown(auth[p]) = "admin"
  /\ pool' = [pool EXCEPT ![p] = PlainOperation(pool[p])]
  /\ Finish(p, [NoRet EXCEPT !.op = "admin", !.ok = TRUE, !.db = 1])
  /\ UNCHANGED <<users, profiles, auth, section, rows, who, arg>>

\* The application as started: nobody is logged in.
UiInit ==
  /\ section \in {c \in Catalogs : c[2].Credits = 38}
  /\ rows = <<>>
  /\ who = [p \in Sessions |-> IF p = "p1" THEN "s1" ELSE "s2"]
  /\ pc = [p \in Sessions |-> "idle"]
  /\ arg = [p \in Sessions |-> NoArg]
  /\ pool = [p \in Sessions |-> [i \in 1..POOL_SIZE |-> NullVars]]
  /\ proc = [p \in Sessions |-> NoProc]
  /\ ret = [p \in Sessions |-> NoRet]
  /\ users = SeedUsers
  /\ profiles = SeedProfiles
  /\ auth = [p \in Sessions |-> NoSession]

\* One user at the terminal, going through the main loop.
UiNext ==
  \/ \E c \in Credentials, f \in LoginFaults : UiLogin("p1", c[1], c[2], f)
  \/ \E d \in RegistrationInputs, f \in BOOLEAN : UiRegister("p1", d, f)
  \/ \E f \in BOOLEAN : RegisterReadId("p1", f)
  \/ \E f \in BOOLEAN : RegisterInsertProfile("p1", f)
  \/ UiLogout("p1")
  \/ \E x \in SectionIds : UiEnroll("p1", x)
  \/ ValidateSection("p1")
  \/ ValidateEnrollments("p1")
  \/ \E yes \in BOOLEAN : Confirm("p1", yes)
  \/ CallProcedure("p1")
  \/ ReadResult("p1")
  \/ \E x \in Sections : UiDropCourse("p1", x)
  \/ UiViewGpa("p1")
  \/ ReadGpa("p1")
  \/ StudentInfo("p1")
  \/ StudentMenuWithoutProfile("p1")
  \/ \E id \in 1..MaxRows, g \in GradeInputs : UiUpdateGrades("p1", id, g)
  \/ AdminMenuChoice("p1")
  \/ Return("p1")

SpecUI == UiInit /\ [][UiNext]_vars

(* ------------------------------ claims --------------------------------- *)

Enrolled(rs, s, x) ==
  {i \in RowIds(rs) : rs[i].student = s /\ rs[i].section = x /\ rs[i].status = "Enrolled"}

\* C1: in every reachable state no section has more Enrolled rows than its
\* capacity, whatever the interleaving of enroll attempts, drops and grade
\* postings of the sessions.
C1_CapacityNeverExceeded ==
  \A x \in Sections :
    Cardinality({i \in RowIds(rows) : rows[i].section = x /\ rows[i].status = "Enrolled"})
      <= section[x].MaxCapacity

\* A session passed the capacity check of the validation, and its procedure
\* call found the one-seat section taken by then.
C1_Witness ==
  \E p \in Sessions :
    /\ pc[p] = "read_result"
    /\ arg[p] = 1
    /\ proc[p].success = 0
    /\ proc[p].result = "SectionFull"
    /\ \E i \in RowIds(rows) : rows[i].section = 1 /\ rows[i].status = "Enrolled"

\* C2: when two different students run the enroll operation at once for the
\* one-seat section with no Enrolled row, exactly one call returns success
\* and leaves an Enrolled row, and the other returns failure with the
\* SectionFull reason.  (Both calls are over, the store holds the single
\* row one of them inserted.)
C2_LastSeatRace ==
  \A p, q \in Sessions :
    ( /\ p # q
      /\ who[p] # who[q]
      /\ pc[p] = "done" /\ ret[p].op = "enroll" /\ arg[p] = 1
      /\ pc[q] = "done" /\ ret[q].op = "enroll" /\ arg[q] = 1
      /\ Len(rows) = 1
      /\ rows[1].section = 1 /\ rows[1].status = "Enrolled" )
    => \E a, b \in {p, q} :
         /\ a # b
         /\ ret[a].ok /\ rows[1].student = who[a]
         /\ ~ret[b].ok /\ ret[b].msg = "SectionFull"

\* C3: in every reachable state there is at most one Enrolled row for each
\* (student, section) pair.
C3_OneEnrolledRowPerPair ==
  \A i, j \in RowIds(rows) :
    ( /\ i # j
      /\ rows[i].status = "Enrolled" /\ rows[j].status = "Enrolled"
      /\ rows[i].student = rows[j].student )
    => rows[i].section # rows[j].section

\* Two sessions of one student passed validation for the same section; the
\* second procedure call found the student's Enrolled row and inserted
\* nothing.
C3_Witness ==
  \E p \in Sessions :
    /\ pc[p] = "read_result"
    /\ proc[p].success = 0
    /\ Enrolled(rows, who[p], arg[p]) # {}

\* C4: under any interleaving of the enroll attempts of one student, the
\* student never holds Enrolled rows of one term worth more than 40 credits,
\* nor two Enrolled sections of one term with the same non-empty time slot.
C4_NoOverloadNoClash ==
  \A s \in Students :
    LET mine == {i \in RowIds(rows) : rows[i].student = s /\ rows[i].status = "Enrolled"}
    IN /\ \A x \in Sections :
            SumCredits(rows, {i \in mine : SameTerm(rows[i].section, x)}) <= 40
       /\ \A i, j \in mine :
            ( /\ rows[i].section # rows[j].section
              /\ SameTerm(rows[i].section, rows[j].section)
              /\ section[rows[i].section].TimeSlot # "" )
            => section[rows[i].section].TimeSlot # section[rows[j].section].TimeSlot

\* Two sessions of one student passed validation for the two sections; the
\* second procedure call found the other section Enrolled and refused.
C4_Witness ==
  \E p \in Sessions :
    /\ pc[p] = "read_result"
    /\ proc[p].success = 0
    /\ proc[p].result \in {"CreditLimitExceeded", "TimeConflict"}
    /\ Enrolled(rows, who[p], arg[p]) = {}
    /\ \E x \in Sections \ {arg[p]} : Enrolled(rows, who[p], x) # {}

\* C5: an enroll call returns success exactly when the procedure call it
\* made itself committed a new Enrolled row, and the (success, message)
\* pair it returns is the pair that call produced.
C5_OutcomeIsOwnProcedureResult ==
  \A p \in Sessions :
    (pc[p] = "done" /\ ret[p].op = "enroll")
    => /\ ret[p].ok <=> (ret[p].proc.success = 1)
       /\ ret[p].msg = ret[p].proc.result

\* C6: once a row is Dropped, Completed or Failed, no drop or grade posting
\* changes its status again.
C6_TerminalStatuses ==
  [][\A i \in RowIds(rows) :
       rows[i].status \in {"Dropped", "Completed", "Failed"}
       => rows'[i].status = rows[i].status]_vars

\* C7: drop_course returns success exactly when an Enrolled row of the
\* (student, section) pair existed; when it returns failure no row is
\* changed; and it leaves no Enrolled row of the pair, so a second drop
\* with no enroll in between returns failure.
C7_DropReportsNotFound ==
  [][\A p \in Sessions, x \in Sections :
       (DropCourse(p, x) /\ arg'[p] = x)
       => /\ ret'[p].ok <=> (Enrolled(rows, who[p], x) # {})
          /\ ~ret'[p].ok => rows' = rows
          /\ Enrolled(rows', who[p], x) = {}]_vars

\* A drop of a pair whose row is already Dropped has returned failure.
C7_Witness ==
  \E p \in Sessions :
    /\ pc[p] = "done" /\ ret[p].op = "drop" /\ ~ret[p].ok
    /\ \E i \in RowIds(rows) :
         rows[i].student = who[p] /\ rows[i].section = arg[p] /\ rows[i].status = "Dropped"

\* The three fields of a graded row agree with its grade.
Graded(r, g) ==
  /\ r.final_grade = <<g>>
  /\ r.grade_points = <<calculate_grade_points(g)>>
  /\ r.status = IF g >= 600 THEN "Completed" ELSE "Failed"

\* C8: after a successful grade posting of g the addressed row holds g, the
\* grade points of g and Completed (g >= 60) or Failed; and every step that
\* changes a row's grade or grade points leaves the three fields in
\* agreement, so no reader sees only some of them updated.
C8_GradeWrittenAtOnce ==
  [][/\ \A p \in Sessions, id \in 1..(MaxRows + 1), g \in GradeInputs :
          (UpdateStudentGrade(p, id, g) /\ ret'[p].ok)
          => (id \in RowIds(rows') /\ Graded(rows'[id], g))
     /\ \A i \in RowIds(rows) :
          (rows'[i].final_grade # rows[i].final_grade
             \/ rows'[i].grade_points # rows[i].grade_points)
          => \E g \in GradeInputs : Graded(rows'[i], g)]_vars

\* A posting of the passing grade 60 has just succeeded.
C8_Witness ==
  \E p \in Sessions :
    /\ pc[p] = "done" /\ ret[p].op = "grade" /\ ret[p].ok
    /\ \E i \in RowIds(rows) :
         rows[i].final_grade = <<600>> /\ rows[i].status = "Completed"

\* C9 as stated: posting 75 sets Completed and 3.0 grade points; posting 55
\* sets Failed and 0.0.
C9_Scenario ==
  [][\A id \in RowIds(rows) :
       /\ UpdateStudentGrade("p1", id, 750)
            => (rows'[id].status = "Completed" /\ rows'[id].grade_points = <<30>>)
       /\ UpdateStudentGrade("p1", id, 550)
            => (rows'[id].status = "Failed" /\ rows'[id].grade_points = <<0>>)]_vars

\* C9 amended: posting 75 sets Completed and 1.7 grade points (the scale
\* gives 3.0 to 87..89); posting 55 sets Failed and 0.0.
C9_ScenarioAmended ==
  [][\A id \in RowIds(rows) :
       /\ UpdateStudentGrade("p1", id, 750)
            => (rows'[id].status = "Completed" /\ rows'[id].grade_points = <<17>>)
       /\ UpdateStudentGrade("p1", id, 550)
            => (rows'[id].status = "Failed" /\ rows'[id].grade_points = <<0>>)]_vars

\* One row has been given 75 and another 55.
C9_Witness ==
  \E i, j \in RowIds(rows) :
    /\ rows[i].final_grade = <<750>> /\ rows[i].status = "Completed"
    /\ rows[j].final_grade = <<550>> /\ rows[j].status = "Failed"

\* C10: a grade below 0 or above 100 is rejected: the call returns failure,
\* makes no gateway operation and leaves the store as it was.
C10_OutOfRangeRejected ==
  [][\A id \in 1..(MaxRows + 1), g \in SoloGradeInputs :
       (UpdateStudentGrade("p1", id, g) /\ (g < 0 \/ g > 1000))
       => /\ ~ret'["p1"].ok
          /\ ret'["p1"].db = 0
          /\ rows' = rows
          /\ pool' = pool]_vars

\* An out-of-range grade was rejected while the store held an Enrolled row
\* it could have been written to.
C10_Witness ==
  /\ pc["p1"] = "done"
  /\ ret["p1"].op = "grade"
  /\ ret["p1"].msg = "Grade must be between 0 and 100"
  /\ \E i \in RowIds(rows) : rows[i].status = "Enrolled"

\* C11: calculate_grade_points is total and monotonic non-decreasing on the
\* grades posting accepts, fractional ones included: of two stored grades
\* the lower one never carries more grade points than the higher one.
C11_GradePointsMonotonic ==
  \A i, j \in RowIds(rows) :
    ( /\ rows[i].final_grade # <<>> /\ rows[j].final_grade # <<>>
      /\ rows[i].final_grade[1] < rows[j].final_grade[1] )
    => /\ rows[i].grade_points # <<>> /\ rows[j].grade_points # <<>>
       /\ rows[i].grade_points[1] <= rows[j].grade_points[1]

\* The credits of the student's Enrolled rows of the term of section x.
EnrolledCredits(rs, s, x) ==
  SumCredits(rs, {i \in RowIds(rs) : /\ rs[i].student = s
                                      /\ rs[i].status = "Enrolled"
                                      /\ SameTerm(rs[i].section, x)})

\* C12: for an existing section with an available spot the eligibility check
\* fails with the credit-limit reason exactly when the credits of the
\* student's Enrolled rows of the section's term plus the section's credits
\* exceed 40; Dropped, Completed and Failed rows do not count, a new total
\* of exactly 40 is accepted, and 38 + 4 is rejected.
C12_CreditLimit ==
  [][ValidateEnrollments("p1") =>
       LET total == EnrolledCredits(rows, who["p1"], arg["p1"])
                      + section[arg["p1"]].Credits
       IN (pc'["p1"] = "done"
             /\ ret'["p1"].msg = "Exceeds maximum credit limit (40)")
          <=> total > 40]_vars

\* With 38 credits Enrolled and a Dropped row beside them, the 4-credit
\* section was refused for the credit limit.
C12_Witness ==
  /\ pc["p1"] = "done"
  /\ ret["p1"].msg = "Exceeds maximum credit limit (40)"
  /\ section[arg["p1"]].Credits = 4
  /\ EnrolledCredits(rows, who["p1"], arg["p1"]) = 38
  /\ \E i \in RowIds(rows) : rows[i].student = who["p1"] /\ rows[i].status = "Dropped"

\* The student holds an Enrolled row in a section of the term of x whose
\* time-slot string equals that of x.
SlotHeld(rs, s, x) ==
  \E i \in RowIds(rs) :
    /\ rs[i].student = s /\ rs[i].status = "Enrolled"
    /\ SameTerm(rs[i].section, x)
    /\ section[rs[i].section].TimeSlot = section[x].TimeSlot

\* C13 as stated: while the student holds an Enrolled row of the same term
\* with the target's time-slot string, the enroll attempt fails and its
\* reason is TimeConflict; and a TimeConflict is reported only then.
C13_TimeConflict ==
  [][/\ (ValidateSection("p1") /\ arg["p1"] \in Sections
           /\ SlotHeld(rows, who["p1"], arg["p1"]) /\ pc'["p1"] = "done")
          => ret'["p1"].msg = "Time conflict with existing enrollment"
     /\ (ValidateEnrollments("p1") /\ SlotHeld(rows, who["p1"], arg["p1"]))
          => (pc'["p1"] = "done"
                /\ ret'["p1"].msg = "Time conflict with existing enrollment")
     /\ (ValidateEnrollments("p1") /\ pc'["p1"] = "done"
           /\ ret'["p1"].msg = "Time conflict with existing enrollment")
          => SlotHeld(rows, who["p1"], arg["p1"])]_vars

\* C13 amended: while the student holds an Enrolled row of the same term
\* with the target's non-empty time-slot string, the eligibility check
\* rejects the attempt, with TimeConflict unless the section is full or the
\* credit limit is exceeded, which are checked first; a TimeConflict is
\* reported only for an Enrolled row with the very same slot string.
C13_TimeConflictAmended ==
  [][LET x    == arg["p1"]
         held == SlotHeld(rows, who["p1"], x) /\ section[x].TimeSlot # ""
         tc   == "Time conflict with existing enrollment"
     IN /\ (ValidateSection("p1") /\ x \in Sections /\ held /\ pc'["p1"] = "done")
             => ret'["p1"].msg = "Section is full"
        /\ (ValidateEnrollments("p1") /\ held)
             => /\ pc'["p1"] = "done"
                /\ IF EnrolledCredits(rows, who["p1"], x) + section[x].Credits > 40
                     THEN ret'["p1"].msg = "Exceeds maximum credit limit (40)"
                     ELSE ret'["p1"].msg = tc
        /\ (ValidateEnrollments("p1") /\ pc'["p1"] = "done" /\ ret'["p1"].msg = tc)
             => held]_vars

\* The student is Enrolled in one section and was refused the other, which
\* has the same time slot, for the time conflict.
C13_Witness ==
  /\ pc["p1"] = "done"
  /\ ret["p1"].msg = "Time conflict with existing enrollment"
  /\ \E i \in RowIds(rows) :
       /\ rows[i].student = who["p1"] /\ rows[i].status = "Enrolled"
       /\ rows[i].section # arg["p1"]
       /\ section[rows[i].section].TimeSlot = section[arg["p1"]].TimeSlot

\* C14: an enroll attempt on a section for which the student holds an
\* Enrolled row is rejected, and the reason reported is "Already enrolled in
\* this section", with or without a time-slot string, with or without free
\* seats.
C14_AlreadyEnrolledReported ==
  [][LET mine == Enrolled(rows, who["p1"], arg["p1"]) # {}
         ae   == "Already enrolled in this section"
     IN /\ (ValidateSection("p1") /\ mine /\ pc'["p1"] = "done")
             => ret'["p1"].msg = ae
        /\ (ValidateEnrollments("p1") /\ mine)
             => (pc'["p1"] = "done" /\ ret'["p1"].msg = ae)]_vars

\* C15: the eligibility check looks at the student's Enrolled rows of the
\* term only: for a section with a free seat it passes whenever the credit
\* limit is kept, no Enrolled row has the section's time slot and no
\* Enrolled row is of this section, so a student whose row of the section
\* is Dropped can enroll in it again.
C15_ReenrollAfterDrop ==
  [][LET s == who["p1"]
         x == arg["p1"]
     IN ( /\ ValidateEnrollments("p1")
          /\ EnrolledCredits(rows, s, x) + section[x].Credits <= 40
          /\ ~(SlotHeld(rows, s, x) /\ section[x].TimeSlot # "")
          /\ Enrolled(rows, s, x) = {} )
        => pc'["p1"] \in {"confirm", "enroll"}]_vars

\* C16: the eligibility check returns eligible with the below-minimum
\* warning exactly when it returns eligible, the new credit total is below
\* 10 and the student has no Enrolled row in the section's term; and after
\* the warning the user who confirms goes on to the enroll operation.
C16_BelowMinimumWarning ==
  [][LET s == who["p1"]
         x == arg["p1"]
     IN /\ ValidateEnrollments("p1")
             => ( pc'["p1"] = "confirm"
                  <=> /\ pc'["p1"] # "done"
                      /\ EnrolledCredits(rows, s, x) + section[x].Credits < 10
                      /\ ~\E i \in RowIds(rows) :
                            /\ rows[i].student = s /\ rows[i].status = "Enrolled"
                            /\ SameTerm(rows[i].section, x) )
        /\ Confirm("p1", TRUE) => pc'["p1"] = "enroll"]_vars

\* C17: registration is all-or-nothing: after a register_student or
\* register_instructor call that failed at the insert of the profile row,
\* the store holds no Account row created by that call.
C17_RegistrationAllOrNothing ==
  ( /\ pc["p1"] = "done"
    /\ ret["p1"].op = "register"
    /\ ~ret["p1"].ok
    /\ ret["p1"].db = 3 )
  => ~\E a \in users : a.user_id = arg["p1"].account

\* C18: after any sequence of login and logout calls, a login issued while
\* another user is logged in included, at most one of current_student and
\* current_instructor is set, and the one that is set is the profile linked
\* to current_user.
C18_OneProfileOfCurrentUser ==
  LET a == auth["p1"]
  IN /\ ~(a.current_student # <<>> /\ a.current_instructor # <<>>)
     /\ a.current_student # <<>>
          => (a.current_user # <<>>
                /\ a.current_student[1].user_id = a.current_user[1].user_id)
     /\ a.current_instructor # <<>>
          => (a.current_user # <<>>
                /\ a.current_instructor[1].user_id = a.current_user[1].user_id)

\* C19: logout clears current_user, current_student and current_instructor,
\* so is_authenticated() is false and has_role(r) is falsy for every role;
\* and a session that is not authenticated stays so until a login call
\* returns success.
C19_LogoutClears ==
  [][/\ Logout("p1")
          => /\ auth'["p1"] = NoSession
             /\ ~is_authenticated(auth'["p1"])
             /\ \A r \in {"Student", "Instructor", "Admin"} : ~has_role(auth'["p1"], r)
     /\ (~is_authenticated(auth["p1"]) /\ is_authenticated(auth'["p1"]))
          => (pc'["p1"] = "done" /\ ret'["p1"].op = "login" /\ ret'["p1"].ok)]_vars

\* C20: a persistence failure inside a DAO operation reaches the caller of
\* the service as a failure result whose message holds the generic
\* "Database operation failed: <operation>" text and no part of the text of
\* the database error, enroll_student included; the operation is not run
\* a second time.
C20_GenericFailureMessage ==
  (pc["p1"] = "done" /\ ret["p1"].err # <<>>)
  => /\ ~ret["p1"].ok
     /\ Contains(ret["p1"].msg, "Database operation failed:")
     /\ \A i \in 1..Len(ret["p1"].err) : ~Contains(ret["p1"].msg, ret["p1"].err[i])
     /\ ret["p1"].db <= 4

\* C21: the GPA and the total credits get_student_gpa returns are those
\* recomputed from the student's Completed rows: the credit-weighted mean
\* of their grade points (in hundredths) and the sum of their credits.
C21_GpaIsRecomputedValue ==
  (pc["p1"] = "done" /\ ret["p1"].op = "gpa")
  => LET done    == {i \in RowIds(rows) : /\ rows[i].student = who["p1"]
                                          /\ rows[i].status = "Completed"}
         credits == SumCredits(rows, done)
     IN /\ ret["p1"].val.total_credits = credits
        /\ credits > 0
             => ret["p1"].val.gpa = (SumPoints(rows, done) * 10) \div credits

\* C22: a successful drop_course changes only the status of the Enrolled
\* row of the (student, section) pair, to Dropped: every other row, and the
\* final grade and grade points of the dropped row, are as before, and the
\* section's available spots are one higher than before.
C22_DropChangesOnlyStatus ==
  [][\A p \in Sessions :
       (pc[p] = "idle" /\ pc'[p] = "done" /\ ret'[p].op = "drop" /\ ret'[p].ok)
       => /\ Len(rows') = Len(rows)
          /\ \A i \in RowIds(rows) :
               /\ rows'[i].student = rows[i].student
               /\ rows'[i].section = rows[i].section
               /\ rows'[i].final_grade = rows[i].final_grade
               /\ rows'[i].grade_points = rows[i].grade_points
               /\ rows'[i].status # rows[i].status
                    => /\ i \in Enrolled(rows, who[p], arg'[p])
                       /\ rows'[i].status = "Dropped"
          /\ AvailableSpots(rows', arg'[p]) = AvailableSpots(rows, arg'[p]) + 1]_vars

\* A drop succeeded while the store held a row of another student in the
\* same section, still Enrolled after the drop.
C22_Witness ==
  \E p \in Sessions :
    /\ pc[p] = "done" /\ ret[p].op = "drop" /\ ret[p].ok
    /\ \E i \in RowIds(rows) :
         /\ rows[i].student # who[p]
         /\ rows[i].section = arg[p]
         /\ rows[i].status = "Enrolled"

\* C23: the grade scale is a set of non-overlapping closed intervals that
\* cover 0..100 completely: every grade a posting has stored lies in
\* exactly one interval of the scale, so the fall-through value 0.0 is
\* never the result of missing every interval.
C23_ScaleCoversAcceptedGrades ==
  \A i \in RowIds(rows) :
    rows[i].final_grade # <<>>
    => Cardinality({k \in 1..Len(GRADE_SCALE) :
                      /\ GRADE_SCALE[k][1] <= rows[i].final_grade[1]
                      /\ rows[i].final_grade[1] <= GRADE_SCALE[k][2]}) = 1

\* C27: update_student_grade with a grade in 0..100 returns the
\* "enrollment not found" failure exactly when no row with the given id
\* exists, and then changes no row; posting to an existing row the grade it
\* already stores is reported as success.
C27_NotFoundOnlyForUnknownId ==
  [][\A id \in 1..(MaxRows + 1), g \in SoloGradeInputs :
       (UpdateStudentGrade("p1", id, g) /\ ValidGrade(g))
       => /\ (ret'["p1"].msg = "Failed to update grade - enrollment not found")
               <=> id \notin RowIds(rows)
          /\ ~ret'["p1"].ok => rows' = rows
          /\ (id \in RowIds(rows) /\ rows[id].final_grade = <<g>>)
               => ret'["p1"].ok]_vars

\* C24: the user id create_user obtains is the id of the Account row it
\* has just inserted, although the INSERT and the LAST_INSERT_ID() read
\* each draw their own connection; and after a successful registration the
\* new profile row references exactly that Account.
C24_ProfileReferencesOwnAccount ==
  [][/\ RegisterReadId("p1", FALSE)
          => arg'["p1"].user_id = arg["p1"].account
     /\ (pc["p1"] = "reg_profile" /\ pc'["p1"] = "done" /\ ret'["p1"].ok)
          => [kind |-> arg["p1"].kind, id |-> arg["p1"].id,
              user_id |-> arg["p1"].account] \in profiles']_vars

\* C28: a login call that returns failure never establishes a session: if
\* is_authenticated() was false before the call it is false after it, also
\* when the credentials were valid and loading the profile raised.
C28_FailedLoginLeavesNoSession ==
  [][( /\ pc["p1"] = "idle" /\ pc'["p1"] = "done"
       /\ ret'["p1"].op = "login" /\ ~ret'["p1"].ok
       /\ ~is_authenticated(auth["p1"]) )
     => ~is_authenticated(auth'["p1"])]_vars

\* C29: starting from a store in which no Enrolled or Dropped row carries a
\* grade, after any sequence of enrollments, drops and grade postings every
\* Enrolled or Dropped row has neither a final grade nor grade points, and
\* every row with a final grade g is Completed when g >= 60 and Failed when
\* g < 60, with the grade points calculate_grade_points gives for g.
C29_GradeAndStatusAgree ==
  \A i \in RowIds(rows) :
    /\ rows[i].status \in {"Enrolled", "Dropped"}
         => (rows[i].final_grade = <<>> /\ rows[i].grade_points = <<>>)
    /\ rows[i].final_grade # <<>>
         => /\ rows[i].final_grade[1] >= 600 => rows[i].status = "Completed"
            /\ rows[i].final_grade[1] < 600 => rows[i].status = "Failed"
            /\ rows[i].grade_points = <<calculate_grade_points(rows[i].final_grade[1])>>

\* The store holds a Dropped row, and a graded row that a drop of its
\* (student, section) pair was then attempted on.
C29_Witness ==
  /\ \E i \in RowIds(rows) : rows[i].status = "Dropped"
  /\ \E p \in Sessions, i \in RowIds(rows) :
       /\ pc[p] = "done" /\ ret[p].op = "drop"
       /\ rows[i].student = who[p] /\ rows[i].section = arg[p]
       /\ rows[i].final_grade # <<>>

\* C30: in the enroll flow of the menu enroll_in_course is invoked only
\* after validate_enrollment_eligibility returned eligible for the same
\* (student, section) pair in the same flow, and when it returned warnings
\* only after the user confirmed; a not-eligible result or a declined
\* confirmation ends the flow without a write.
C30_EnrollOnlyAfterEligible ==
  [][\A p \in Sessions :
       LET chk == CheckEnrollments(rows, who[p], arg[p])
       IN \* the procedure is called only from the last stage of the flow
          /\ (proc'[p].called /\ ~proc[p].called) => pc[p] = "enroll"
          \* which is entered only from an eligible validation without
          \* warnings, or from the confirmation
          /\ (pc'[p] = "enroll" /\ pc[p] # "enroll")
               => \/ pc[p] = "validate_enrollments" /\ chk[1] /\ ~chk[3]
                  \/ pc[p] = "confirm" /\ Confirm(p, TRUE)
          /\ (pc'[p] = "confirm" /\ pc[p] # "confirm")
               => (pc[p] = "validate_enrollments" /\ chk[1] /\ chk[3])
          /\ (pc'[p] = "validate_enrollments" /\ pc[p] # "validate_enrollments")
               => /\ pc[p] = "validate_section"
                  /\ arg[p] \in Sections
                  /\ AvailableSpots(rows, arg[p]) > 0
          \* the pair stays the same from the validation to the call
          /\ pc[p] \in {"validate_section", "validate_enrollments", "confirm", "enroll"}
               => (arg'[p] = arg[p] /\ who'[p] = who[p])
          \* not eligible, or declined: the flow ends and nothing is written
          /\ ( /\ pc[p] \in {"validate_section", "validate_enrollments", "confirm"}
               /\ pc'[p] = "done" )
               => (rows' = rows /\ ~proc'[p].called)
          /\ (pc[p] = "validate_enrollments" /\ pc'[p] # pc[p] /\ ~chk[1])
               => (pc'[p] = "done" /\ ~ret'[p].ok)
          /\ Confirm(p, FALSE) => (pc'[p] = "done" /\ rows' = rows)]_vars

\* The procedure has been called for a first enrollment of fewer than 10
\* credits, which the validation passes with a warning only: the user had
\* confirmed.
C30_Witness ==
  \E p \in Sessions :
    /\ pc[p] = "read_result"
    /\ proc[p].called /\ proc[p].success = 1
    /\ section[arg[p]].Credits < MIN_CREDITS_PER_SEMESTER
    /\ \A i \in RowIds(rows) :
         rows[i].student = who[p] => rows[i].section = arg[p]

\* C25: every connection a gateway operation draws is back in the pool when
\* the operation has ended, on success and on every failure path, that of
\* a connection that is no longer connected included: between operations
\* no connection is checked out.
C25_ConnectionsReturned ==
  \A p \in Sessions : POOL_SIZE - Len(pool[p]) = 0

\* C26: through the main loop only login and registration are started
\* while nobody is authenticated, and while a user is authenticated only
\* the workflows of the menu of that user's role: the student workflows
\* only when has_role(Student), grade posting only when
\* has_role(Instructor), management only when has_role(Admin); and the
\* session stays as it is until the workflow has ended.
C26_MenuMatchesRole ==
  [][LET a  == auth["p1"]
         to == pc'["p1"]
         op == ret'["p1"].op
         entry   == to = "reg_read_id" \/ op \in {"login", "register"}
         student == to \in {"validate_section", "gpa_read"} \/ op \in {"drop", "student"}
     IN /\ (pc["p1"] = "idle" /\ to # "idle")
             => /\ entry <=> ~is_authenticated(a)
                /\ student <=> has_role(a, "Student")
                /\ op = "grade" <=> has_role(a, "Instructor")
                /\ op = "admin" <=> has_role(a, "Admin")
        /\ pc["p1"] \notin {"idle", "done"} => auth'["p1"] = a
        /\ (pc["p1"] = "idle" /\ to = "idle" /\ auth'["p1"] # a)
             => (is_authenticated(a) /\ ~is_authenticated(auth'["p1"]))]_vars

\* An instructor who logged in at the login menu has posted a grade to the
\* enrollment a student made from the student menu before.
C26_Witness ==
  /\ pc["p1"] = "done"
  /\ ret["p1"].op = "grade" /\ ret["p1"].ok
  /\ has_role(auth["p1"], "Instructor")
  /\ auth["p1"].current_instructor # <<>>

TypeOK ==
  /\ Len(rows) <= MaxRows
  /\ \A p \in Sessions :
       Len(pool[p]) <= POOL_SIZE /\ Len(pool[p]) >= POOL_SIZE - MaxLost

====
